---- MODULE Spec2Model ----
(***************************************************************************)
(* Model of the file discovery and pattern-matching engine of the GitHub   *)
(* code analyzer (src/src/code_analyzer.py) and of the part of main() that *)
(* drives it (src/src/main.py).                                            *)
(*                                                                         *)
(* Strings are sequences of one-character strings, so that trimming,       *)
(* splitting, escaping and matching are computed character by character.   *)
(*                                                                         *)
(* Four specifications share the module:                                   *)
(*   SpecFile : CodeAnalyzer.process_file applied to one file              *)
(*   Spec     : main's pattern loop around CodeAnalyzer.search_pattern     *)
(*              (thread pool, as_completed collector, results.update)      *)
(*   SpecFind : CodeAnalyzer.find_files walking a directory tree           *)
(*   SpecCsv  : ReportGenerator.export_csv (src/src/report_generator.py)   *)
(***************************************************************************)
EXTENDS Integers, Sequences, FiniteSets, TLC

VARIABLES
    \* ---- SpecFile: one call of process_file
    pf_file,        \* the file on disk: [kind, content, faults]
    pf_pattern,     \* the pattern argument
    pf_K,           \* the context_size argument
    pf_result,      \* the value returned
    pf_pc,          \* "call" | "returned"
    \* ---- Spec: main's pattern loop and search_pattern
    fs,             \* path -> file on disk
    files,          \* the list handed to search_pattern
    patterns,       \* main: the list of patterns searched in sequence
    pat_idx,        \* main: index of the pattern being searched
    max_workers,    \* pool size
    futures,        \* index in files -> [state, result]
    submitted,      \* number of files submitted so far
    yielded,        \* indices as_completed has already yielded
    sp_results,     \* search_pattern's local `results` dict
    sp_raised,      \* search_pattern left by an exception
    history,        \* main: what each finished search_pattern call returned
    results,        \* main's `results` dict of the repository
    pc,             \* "submit" | "collect" | "returned" | "done"
    \* ---- SpecFind: one call of find_files
    base_path,      \* the parts of self.base_path
    tree,           \* path below base_path -> kind of the entry on disk
    faulty,         \* directory below base_path -> how reading it fails
    file_pattern,   \* self.file_pattern
    ff_patterns,    \* the local list `patterns`
    ff_idx,         \* index of the pattern being expanded
    ff_phase,       \* which glob of the pattern: "direct" | "root" | "recursive"
    ff_todo,        \* what the running glob has still to yield
    matching_files, \* the local list `matching_files`
    seen_files,     \* the local set `seen_files`
    ff_result,      \* the list returned
    ff_pc,          \* "split" | "glob" | "iter" | "done"
    \* ---- SpecCsv: one call of ReportGenerator.export_csv
    gh_org,         \* the environment variable GH_ORG, "" when unset
    csv_data,       \* the mapping to export, its items in iteration order
    csv_idx,        \* index of the item the loop is at
    all_entries,    \* the local list `all_entries`
    csv_file,       \* the output file: [exists, header, rows]
    csv_pc,         \* "loop" | "write" | "done" | "raised"
    \* ---- SpecList: main up to the repository list, and GitHubHandler
    environ,        \* os.environ after load_dotenv: variable -> value, "" unset
    arg_org,        \* --org, "" when not given
    arg_limit,      \* --limit, 0 when not given
    hub_repos,      \* GitHub: the repositories of the organization O1, in order
    inclusion_file, \* inclusions/repos.csv: [exists, content]
    exclusion_file, \* exclusions/repos.csv: [exists, content]
    token,          \* GitHubHandler.token
    org,            \* the organization get_organization returned
    included_repos, \* list_repositories: the local set
    excluded_repos, \* list_repositories: the local set
    lr_idx,         \* list_repositories: position in org.get_repos()
    filtered_repos, \* list_repositories: the local list
    repos,          \* main: the repositories to analyze
    ls_error,       \* why main gave up, "" while it has not
    ls_pc,          \* "env" | "handler" | "org" | "load" | "filter" | "limit"
                    \* | "ready" | "exit0" | "exit1"
    \* ---- SpecMain: main from the pattern rewrite to the report
    args,           \* [pattern, file_pattern, contents, keep_clones]
    repo_list,      \* main's `repos` when the loop starts: repository names
    remote,         \* repository -> how its clone and its analysis go
    clone_dir,      \* the names of the entries of <cwd>/clone
    repo_idx,       \* position of the loop in repo_list
    all_results,    \* main's dict `all_results`
    report,         \* the report file: [written, data]
    main_pc         \* "start" | "setup" | "clone" | "analyze" | "finally"
                    \* | "finally_exc" | "report" | "done" | "interrupted"

pfVars == <<pf_file, pf_pattern, pf_K, pf_result, pf_pc>>
spVars == <<fs, files, patterns, pat_idx, max_workers, futures, submitted,
            yielded, sp_results, sp_raised, history, results, pc>>
ffVars == <<base_path, tree, faulty, file_pattern, ff_patterns, ff_idx, ff_phase,
            ff_todo, matching_files, seen_files, ff_result, ff_pc>>
csvVars == <<gh_org, csv_data, csv_idx, all_entries, csv_file, csv_pc>>
lsVars == <<environ, arg_org, arg_limit, hub_repos, inclusion_file, exclusion_file,
            token, org, included_repos, excluded_repos, lr_idx, filtered_repos,
            repos, ls_error, ls_pc>>
loopVars == <<args, repo_list, remote, clone_dir, repo_idx, all_results, report, main_pc>>
vars == <<pfVars, spVars, ffVars, csvVars, lsVars, loopVars>>

\* what the actions of one specification leave alone
NotPf == <<spVars, ffVars, csvVars, lsVars, loopVars>>
NotSp == <<pfVars, ffVars, csvVars, lsVars, loopVars>>
NotFf == <<pfVars, spVars, csvVars, lsVars, loopVars>>
NotCsv == <<pfVars, spVars, ffVars, lsVars, loopVars>>
NotLs == <<pfVars, spVars, ffVars, csvVars, loopVars>>
NotLoop == <<pfVars, spVars, ffVars, csvVars, lsVars>>

----------------------------------------------------------------------------
(* Bounds *)

MaxLines == 4          \* lines of the file given to process_file
MaxK == 2              \* largest context_size tried
MaxSearchLines == 2    \* lines of a file in the search_pattern model
MaxWorkers == 2        \* largest pool size tried
MaxTreeEntries == 2    \* files and empty directories of the tree walked
MaxReportFiles == 2    \* files of the mapping handed to export_csv

\* The lines files are made of
LineSet == { <<"a", "b">>, <<" ", "A", " ">>, <<"b">> }
SearchLineSet == { <<" ", "A", " ">>, <<"b">> }

\* The content patterns tried
PatternSet == { <<"a">>, <<"b">>, <<"A", "b">>, <<".">>, <<"a", ".">>,
                <<"a", "*">>, <<"?", "b">>, <<"[", "a", "]">>, <<"(">>,
                <<"(", "*">>, <<".", "*">> }
SearchPatternSet == { <<"a">>, <<"b">>, <<"(">> }

\* The paths of the files searched
Paths == <<"f1", "f2">>

----------------------------------------------------------------------------
(* Strings *)

NL == "\n"
Whitespace == {" ", "\t", NL}

RECURSIVE Concat(_)
Concat(ss) == IF ss = <<>> THEN <<>> ELSE Head(ss) \o Concat(Tail(ss))

RECURSIVE Join(_, _)
Join(ss, sep) ==
    IF ss = <<>> THEN <<>>
    ELSE IF Len(ss) = 1 THEN ss[1]
    ELSE ss[1] \o sep \o Join(Tail(ss), sep)

\* str.strip()
RECURSIVE LStrip(_)
LStrip(s) ==
    IF s # <<>> /\ Head(s) \in Whitespace THEN LStrip(Tail(s)) ELSE s

RECURSIVE RStrip(_)
RStrip(s) ==
    IF s # <<>> /\ s[Len(s)] \in Whitespace
    THEN RStrip(SubSeq(s, 1, Len(s) - 1)) ELSE s

Strip(s) == RStrip(LStrip(s))

\* str.splitlines(): a trailing line break opens no further line
RECURSIVE SplitFrom(_, _, _, _)
SplitFrom(s, i, cur, acc) ==
    IF i > Len(s) THEN (IF cur = <<>> THEN acc ELSE Append(acc, cur))
    ELSE IF s[i] = NL THEN SplitFrom(s, i + 1, <<>>, Append(acc, cur))
    ELSE SplitFrom(s, i + 1, Append(cur, s[i]), acc)

SplitLines(s) == SplitFrom(s, 1, <<>>, <<>>)

\* str.replace(old, new), old of two characters
RECURSIVE Replace2(_, _, _)
Replace2(s, old, new) ==
    IF Len(s) < 2 THEN s
    ELSE IF SubSeq(s, 1, 2) = old
         THEN new \o Replace2(SubSeq(s, 3, Len(s)), old, new)
         ELSE <<Head(s)>> \o Replace2(Tail(s), old, new)

Lower(c) ==
    IF c = "A" THEN "a" ELSE IF c = "B" THEN "b" ELSE IF c = "R" THEN "r" ELSE c

----------------------------------------------------------------------------
(* Regular expressions: the part of Python's re the patterns reach *)

BS == "\\"
GlobChars == {"*", "?", "[", "]"}
ReSpecial == {"(", ")", "[", "]", "{", "}", "?", "*", "+", "-", "|", "^",
              "$", BS, ".", "&", "~", "#", " ", "\t", NL}

HasGlobChar(p) == \E i \in 1..Len(p) : p[i] \in GlobChars

\* re.escape
RECURSIVE ReEscape(_)
ReEscape(p) ==
    IF p = <<>> THEN <<>>
    ELSE (IF Head(p) \in ReSpecial THEN <<BS, Head(p)>> ELSE <<Head(p)>>)
         \o ReEscape(Tail(p))

\* re.escape(pattern).replace('\\*', '.*').replace('\\?', '.')
GlobToRegex(p) ==
    Replace2(Replace2(ReEscape(p), <<BS, "*">>, <<".", "*">>),
             <<BS, "?">>, <<".">>)

EffectivePatternEscaped(p) == GlobToRegex(p)

\* the pattern string process_file hands to re.compile
EffectivePattern(p) == IF HasGlobChar(p) THEN GlobToRegex(p) ELSE p

Atom(k, c) == [k |-> k, c |-> c, star |-> FALSE]
BadRegex == [ok |-> FALSE, atoms |-> <<>>]

\* re.compile: the atoms of the expression, or a re.error. The patterns tried
\* hold no ")" and reach "[", "]", "?" only escaped, so an unescaped "(" opens
\* a group that is never closed
RECURSIVE ParseRegex(_, _)
ParseRegex(r, acc) ==
    IF r = <<>> THEN [ok |-> TRUE, atoms |-> acc]
    ELSE IF Head(r) = BS
         THEN IF Len(r) < 2 THEN BadRegex
              ELSE ParseRegex(SubSeq(r, 3, Len(r)), Append(acc, Atom("lit", r[2])))
    ELSE IF Head(r) = "."
         THEN ParseRegex(Tail(r), Append(acc, Atom("any", ".")))
    ELSE IF Head(r) = "*"
         THEN IF acc = <<>> \/ acc[Len(acc)].star THEN BadRegex
              ELSE ParseRegex(Tail(r),
                     [acc EXCEPT ![Len(acc)] = [@ EXCEPT !.star = TRUE]])
    ELSE IF Head(r) \in {"(", ")", "[", "]", "?", "+", "{", "}"}
         THEN BadRegex
    ELSE ParseRegex(Tail(r), Append(acc, Atom("lit", Head(r))))

ReCompile(r) == ParseRegex(r, <<>>)

\* one atom against one character, under re.IGNORECASE
AtomMatches(a, c) ==
    IF a.k = "any" THEN c # NL ELSE Lower(a.c) = Lower(c)

RECURSIVE MatchHere(_, _, _, _)
MatchHere(atoms, ai, line, li) ==
    IF ai > Len(atoms) THEN TRUE
    ELSE IF atoms[ai].star
         THEN \/ MatchHere(atoms, ai + 1, line, li)
              \/ /\ li <= Len(line)
                 /\ AtomMatches(atoms[ai], line[li])
                 /\ MatchHere(atoms, ai, line, li + 1)
    ELSE /\ li <= Len(line)
         /\ AtomMatches(atoms[ai], line[li])
         /\ MatchHere(atoms, ai + 1, line, li + 1)

ReSearchAnchored(atoms, line) == MatchHere(atoms, 1, line, 1)

\* compiled_pattern.search(line): a match starting anywhere in the line
ReSearch(atoms, line) ==
    \E s \in 1..(Len(line) + 1) : MatchHere(atoms, 1, line, s)

----------------------------------------------------------------------------
(* CodeAnalyzer.get_context_lines and CodeAnalyzer.process_file *)

Max(a, b) == IF a >= b THEN a ELSE b
Min(a, b) == IF a <= b THEN a ELSE b

\* lines[lo:hi] of Python, lo and hi 0-based and within 0..len
Slice(s, lo, hi) == SubSeq(s, lo + 1, hi)

StripAll(ls) == [i \in 1..Len(ls) |-> Strip(ls[i])]

GetContextLinesNoClip(lines, current_idx, context_size) ==
    LET start_idx == Max(0, current_idx - context_size)
        end_idx == Min(Len(lines), current_idx + context_size)
    IN [before |-> StripAll(Slice(lines, start_idx, current_idx)),
        after |-> StripAll(Slice(lines, current_idx + 1, end_idx))]

GetContextLinesRaw(lines, current_idx, context_size) ==
    LET start_idx == Max(0, current_idx - context_size)
        end_idx == Min(Len(lines), current_idx + context_size + 1)
    IN [before |-> Slice(lines, start_idx, current_idx),
        after |-> Slice(lines, current_idx + 1, end_idx)]

\* get_context_lines(lines, current_idx, context_size), current_idx 0-based
GetContextLines(lines, current_idx, context_size) ==
    LET start_idx == Max(0, current_idx - context_size)
        end_idx == Min(Len(lines), current_idx + context_size + 1)
    IN [before |-> StripAll(Slice(lines, start_idx, current_idx)),
        after |-> StripAll(Slice(lines, current_idx + 1, end_idx))]

SearchMatchZeroBased(lines, line_num, context_size) ==
    LET ctx == GetContextLines(lines, line_num - 1, context_size)
    IN [line_number |-> line_num - 1,
        line_content |-> Strip(lines[line_num]),
        match_text |-> Strip(lines[line_num]),
        context_before |-> ctx.before,
        context_after |-> ctx.after]

\* the SearchMatch of line line_num (1-based)
SearchMatch(lines, line_num, context_size) ==
    LET ctx == GetContextLines(lines, line_num - 1, context_size)
    IN [line_number |-> line_num,
        line_content |-> Strip(lines[line_num]),
        match_text |-> Strip(lines[line_num]),
        context_before |-> ctx.before,
        context_after |-> ctx.after]

\* the loop over enumerate(lines, 1): a line whose scan raises is skipped
RECURSIVE ScanLines(_, _, _, _, _, _)
ScanLines(lines, atoms, faults, context_size, line_num, matches) ==
    IF line_num > Len(lines) THEN matches
    ELSE IF line_num \in faults
         THEN ScanLines(lines, atoms, faults, context_size, line_num + 1, matches)
    ELSE IF ReSearch(atoms, lines[line_num])
         THEN ScanLines(lines, atoms, faults, context_size, line_num + 1,
                        Append(matches, SearchMatch(lines, line_num, context_size)))
    ELSE ScanLines(lines, atoms, faults, context_size, line_num + 1, matches)

\* what process_file hands back: None, a dict, or an exception leaving it
None == [raised |-> FALSE, some |-> FALSE, file_path |-> "", matches |-> <<>>]
Raised == [raised |-> TRUE, some |-> FALSE, file_path |-> "", matches |-> <<>>]
FileDict(path, matches) ==
    [raised |-> FALSE, some |-> TRUE, file_path |-> path, matches |-> matches]

FileKinds == {"text", "missing", "dir", "undecodable", "ioerror"}

ProcessFileNoGuard(f, path, pattern, context_size) ==
    IF f.kind # "text" THEN None
    ELSE LET lines == SplitLines(f.content)
             compiled == ReCompile(EffectivePattern(pattern))
         IN IF ~compiled.ok THEN None
            ELSE FileDict(path, ScanLines(lines, compiled.atoms, f.faults,
                                          context_size, 1, <<>>))

\* process_file(file_path, pattern, context_size) on the file f found at path
ProcessFile(f, path, pattern, context_size) ==
    IF f.kind = "missing" THEN None
    ELSE IF f.kind = "dir" THEN None
    ELSE IF f.kind = "undecodable" THEN None
    ELSE IF f.kind = "ioerror" THEN None
    ELSE LET lines == SplitLines(f.content)
             compiled == ReCompile(EffectivePattern(pattern))
         IN IF ~compiled.ok THEN None
            ELSE LET matches == ScanLines(lines, compiled.atoms, f.faults,
                                          context_size, 1, <<>>)
                 IN IF matches # <<>> THEN FileDict(path, matches) ELSE None

----------------------------------------------------------------------------
(* SpecFile: one call of process_file *)

SeqsUpTo(S, n) == UNION { [1..m -> S] : m \in 0..n }

\* a text file of the given lines, with or without a final line break
TextOf(ls, final_nl) == Join(ls, <<NL>>) \o (IF final_nl THEN <<NL>> ELSE <<>>)

TextFile(content, faults) ==
    [kind |-> "text", content |-> content, faults |-> faults]
BrokenFile(kind) == [kind |-> kind, content |-> <<>>, faults |-> {}]

\* the files process_file is tried on; at most one line raises while scanned
FileInputs ==
    { TextFile(TextOf(ls, nl), {}) : ls \in SeqsUpTo(LineSet, MaxLines), nl \in BOOLEAN }
    \cup { TextFile(TextOf(ls, FALSE), {1}) : ls \in SeqsUpTo(LineSet, 2) \ {<<>>} }
    \cup { BrokenFile(k) : k \in FileKinds \ {"text"} }

PfPath == Paths[1]

PfInit ==
    /\ pf_file \in FileInputs
    /\ pf_pattern \in PatternSet
    /\ pf_K \in 0..MaxK
    /\ pf_result = None
    /\ pf_pc = "call"

PfProcessFile ==
    /\ pf_pc = "call"
    /\ pf_result' = ProcessFile(pf_file, PfPath, pf_pattern, pf_K)
    /\ pf_pc' = "returned"
    /\ UNCHANGED <<pf_file, pf_pattern, pf_K, NotPf>>


----------------------------------------------------------------------------
(* Spec: CodeAnalyzer.search_pattern, called by main once per pattern *)

DefaultContextSize == 2

PathSet == { Paths[i] : i \in 1..Len(Paths) }

\* the files of the searched tree; at most the first line raises while scanned
SearchFileInputs ==
    { TextFile(TextOf(ls, FALSE), {}) : ls \in SeqsUpTo(SearchLineSet, MaxSearchLines) }
    \cup { TextFile(TextOf(ls, FALSE), {1}) :
             ls \in SeqsUpTo(SearchLineSet, MaxSearchLines) \ {<<>>} }
    \cup { BrokenFile(k) : k \in {"missing", "undecodable", "ioerror"} }

PatternLists == { ps \in SeqsUpTo(SearchPatternSet, 2) : ps # <<>> }

\* dicts are functions; {} of Python is the function of empty domain
EmptyDict == <<>>
DictUpdate(d, e) ==
    [k \in (DOMAIN d) \cup (DOMAIN e) |-> IF k \in DOMAIN e THEN e[k] ELSE d[k]]
DictSet(d, key, val) ==
    [k \in (DOMAIN d) \cup {key} |-> IF k = key THEN val ELSE d[k]]

NoFuture == [state |-> "none", result |-> None]
FreshFutures == [i \in 1..Len(Paths) |-> NoFuture]

Running == { i \in DOMAIN futures : futures[i].state = "running" }
Pending == { i \in DOMAIN futures : futures[i].state = "pending" }
Yielded == { yielded[k] : k \in 1..Len(yielded) }

SpInit ==
    /\ fs \in [PathSet -> SearchFileInputs]
    /\ files = Paths
    /\ patterns \in PatternLists
    /\ pat_idx = 1
    /\ max_workers \in 1..MaxWorkers
    /\ futures = FreshFutures
    /\ submitted = 0
    /\ yielded = <<>>
    /\ sp_results = EmptyDict
    /\ sp_raised = FALSE
    /\ history = <<>>
    /\ results = EmptyDict
    /\ pc = "submit"

mainVars == <<fs, files, patterns, pat_idx, max_workers, history, results>>

\* executor.submit(self.process_file, file_path, pattern) for the next file;
\* once every file is submitted the as_completed loop starts
Submit ==
    /\ pc = "submit"
    /\ submitted < Len(files)
    /\ futures' = [futures EXCEPT ![submitted + 1].state = "pending"]
    /\ submitted' = submitted + 1
    /\ pc' = IF submitted + 1 = Len(files) THEN "collect" ELSE "submit"
    /\ UNCHANGED <<NotSp, mainVars, yielded, sp_results, sp_raised>>

\* an idle worker thread takes the oldest queued task
Start(i) ==
    /\ i \in Pending
    /\ \A j \in Pending : i <= j
    /\ Cardinality(Running) < max_workers
    /\ futures' = [futures EXCEPT ![i].state = "running"]
    /\ UNCHANGED <<NotSp, mainVars, submitted, yielded, sp_results, sp_raised, pc>>

\* the worker runs process_file(file_path, pattern) to its end
FinishUncaught(i) ==
    /\ i \in Running
    /\ futures' = [futures EXCEPT
         ![i] = [state |-> "finished",
                 result |-> IF fs[files[i]].kind = "ioerror" THEN Raised
                            ELSE ProcessFile(fs[files[i]], files[i],
                                             patterns[pat_idx], DefaultContextSize)]]
    /\ UNCHANGED <<NotSp, mainVars, submitted, yielded, sp_results, sp_raised, pc>>

FinishWritesResult(i) ==
    /\ i \in Running
    /\ LET result == ProcessFile(fs[files[i]], files[i], patterns[pat_idx],
                                 DefaultContextSize)
       IN /\ futures' = [futures EXCEPT ![i] = [state |-> "finished", result |-> result]]
          /\ sp_results' = IF result.some
                           THEN DictSet(sp_results, files[i], [matches |-> result.matches])
                           ELSE sp_results
    /\ UNCHANGED <<NotSp, mainVars, submitted, yielded, sp_raised, pc>>

Finish(i) ==
    /\ i \in Running
    /\ futures' = [futures EXCEPT
         ![i] = [state |-> "finished",
                 result |-> ProcessFile(fs[files[i]], files[i],
                                        patterns[pat_idx], DefaultContextSize)]]
    /\ UNCHANGED <<NotSp, mainVars, submitted, yielded, sp_results, sp_raised, pc>>

\* one turn of `for future in as_completed(future_to_file)`
CollectInOrder(i) ==
    /\ pc = "collect"
    /\ futures[i].state = "finished"
    /\ i \notin Yielded
    /\ yielded' = Append(yielded, i)
    /\ LET result == futures[i].result
       IN IF result.raised
          THEN /\ sp_raised' = TRUE
               /\ pc' = "shutdown"
               /\ UNCHANGED sp_results
          ELSE /\ sp_results' =
                    IF result.some
                    THEN DictSet(sp_results, files[Len(yielded) + 1],
                                 [matches |-> result.matches])
                    ELSE sp_results
               /\ UNCHANGED <<sp_raised, pc>>
    /\ UNCHANGED <<NotSp, mainVars, submitted, futures>>

Collect(i) ==
    /\ pc = "collect"
    /\ futures[i].state = "finished"
    /\ i \notin Yielded
    /\ yielded' = Append(yielded, i)
    /\ LET result == futures[i].result
       IN IF result.raised
          THEN /\ sp_raised' = TRUE
               /\ pc' = "shutdown"
               /\ UNCHANGED sp_results
          ELSE /\ sp_results' =
                    IF result.some
                    THEN DictSet(sp_results, result.file_path,
                                 [matches |-> result.matches])
                    ELSE sp_results
               /\ UNCHANGED <<sp_raised, pc>>
    /\ UNCHANGED <<NotSp, mainVars, submitted, futures>>

ReturnEarly ==
    /\ pc \in {"collect", "shutdown"}
    /\ pc' = "returned"
    /\ UNCHANGED <<NotSp, mainVars, submitted, futures, yielded, sp_results, sp_raised>>

\* leaving the `with` block waits for every task, then search_pattern returns
Return ==
    /\ \/ pc = "collect" /\ Yielded = DOMAIN futures
       \/ pc = "shutdown"
    /\ \A i \in DOMAIN futures : futures[i].state = "finished"
    /\ pc' = "returned"
    /\ UNCHANGED <<NotSp, mainVars, submitted, futures, yielded, sp_results, sp_raised>>

\* main: `if pattern_results: results.update(pattern_results)`, then the next
\* pattern of the list; an exception leaves the repository's try block
MainUpdate ==
    /\ pc = "returned"
    /\ history' = Append(history, sp_results)
    /\ results' = IF ~sp_raised /\ sp_results # EmptyDict
                  THEN DictUpdate(results, sp_results) ELSE results
    /\ IF sp_raised
       THEN /\ pc' = "failed"
            /\ UNCHANGED <<pat_idx, futures, submitted, yielded, sp_results, sp_raised>>
       ELSE IF pat_idx < Len(patterns)
       THEN /\ pat_idx' = pat_idx + 1
            /\ futures' = FreshFutures
            /\ submitted' = 0
            /\ yielded' = <<>>
            /\ sp_results' = EmptyDict
            /\ pc' = "submit"
            /\ UNCHANGED sp_raised
       ELSE /\ pc' = "done"
            /\ UNCHANGED <<pat_idx, futures, submitted, yielded, sp_results, sp_raised>>
    /\ UNCHANGED <<NotSp, fs, files, patterns, max_workers>>


----------------------------------------------------------------------------
(* CodeAnalyzer.find_files: pathlib globbing over a directory tree *)

\* names of directory entries
N_root == <<"/">>
N_w == <<"w">>
N_r == <<"r">>
N_cache == <<".", "c">>
N_s == <<"s">>
N_t == <<"t">>
N_h == <<".", "h">>
N_git == <<".", "g", "i", "t">>
N_a_tf == <<"a", ".", "t", "f">>
N_b_so == <<"b", ".", "s", "o">>
N_env == <<".", "e">>

\* the roots tried: /w/r and /.c/r
BasePaths == { <<N_root, N_w, N_r>>, <<N_root, N_cache, N_r>> }

\* the places below the root where an entry may exist
CandidatePaths ==
    { <<N_a_tf>>, <<N_b_so>>, <<N_env>>,
      <<N_s, N_a_tf>>, <<N_s, N_b_so>>, <<N_s, N_t, N_a_tf>>, <<N_s, N_h, N_a_tf>>,
      <<N_git, N_a_tf>>, <<N_git, N_s, N_a_tf>> }

\* a text file, a file with a NUL byte in its first 1024 bytes, a directory
EntryKinds == {"text", "nul", "dir"}

Trees ==
    UNION { [S -> EntryKinds] :
            S \in { T \in SUBSET CandidatePaths : Cardinality(T) <= MaxTreeEntries } }

\* the values of --file-pattern tried
FilePatternSet ==
    { <<"*">>,
      <<"*", ".", "t", "f">>,
      <<".", "*">>,
      <<"*", ".", "t", "f", ",", " ", "*", ".", "s", "o">>,
      <<"*", ".", "t", "f", ",", "a", "*">>,
      <<"s", "/", "*", ".", "t", "f">>,
      <<".", "g", "i", "t", "/", "*">>,
      <<"*", "*", "/", "*">> }

\* str.split(sep), sep of one character
RECURSIVE SplitOnFrom(_, _, _, _, _)
SplitOnFrom(s, sep, i, cur, acc) ==
    IF i > Len(s) THEN Append(acc, cur)
    ELSE IF s[i] = sep THEN SplitOnFrom(s, sep, i + 1, <<>>, Append(acc, cur))
    ELSE SplitOnFrom(s, sep, i + 1, Append(cur, s[i]), acc)

SplitOn(s, sep) == SplitOnFrom(s, sep, 1, <<>>, <<>>)

Contains(s, c) == \E i \in 1..Len(s) : s[i] = c

\* str.replace('\n', '')
RECURSIVE RemoveChar(_, _)
RemoveChar(s, c) ==
    IF s = <<>> THEN <<>>
    ELSE (IF Head(s) = c THEN <<>> ELSE <<Head(s)>>) \o RemoveChar(Tail(s), c)

\* patterns = file_pattern.split(',') if ',' in file_pattern else [file_pattern]
\* patterns = [p.strip().replace('\n', '') for p in patterns]
ExpandPatterns(fp) ==
    LET raw == IF Contains(fp, ",") THEN SplitOn(fp, ",") ELSE <<fp>>
    IN [i \in 1..Len(raw) |-> RemoveChar(Strip(raw[i]), NL)]

\* index of the "]" closing the class opened at pat[pi], 0 when there is none
\* (fnmatch.translate: a leading "!" and a "]" right after it are content)
RECURSIVE ClassEndFrom(_, _)
ClassEndFrom(pat, j) ==
    IF j > Len(pat) THEN 0
    ELSE IF pat[j] = "]" THEN j
    ELSE ClassEndFrom(pat, j + 1)

ClassEnd(pat, pi) ==
    LET j1 == IF pi + 1 <= Len(pat) /\ pat[pi + 1] = "!" THEN pi + 2 ELSE pi + 1
        j2 == IF j1 <= Len(pat) /\ pat[j1] = "]" THEN j1 + 1 ELSE j1
    IN ClassEndFrom(pat, j2)

\* fnmatch of one name against one pattern component, case-sensitive
RECURSIVE FnMatchAt(_, _, _, _)
FnMatchAt(name, ni, pat, pi) ==
    IF pi > Len(pat) THEN ni > Len(name)
    ELSE IF pat[pi] = "*"
         THEN \/ FnMatchAt(name, ni, pat, pi + 1)
              \/ ni <= Len(name) /\ FnMatchAt(name, ni + 1, pat, pi)
    ELSE IF pat[pi] = "?"
         THEN ni <= Len(name) /\ FnMatchAt(name, ni + 1, pat, pi + 1)
    ELSE IF pat[pi] = "[" /\ ClassEnd(pat, pi) # 0
         THEN LET j == ClassEnd(pat, pi)
                  negated == pat[pi + 1] = "!"
                  members == { pat[k] : k \in (IF negated THEN pi + 2 ELSE pi + 1)..(j - 1) }
              IN /\ ni <= Len(name)
                 /\ (name[ni] \in members) # negated
                 /\ FnMatchAt(name, ni + 1, pat, j + 1)
    ELSE /\ ni <= Len(name)
         /\ name[ni] = pat[pi]
         /\ FnMatchAt(name, ni + 1, pat, pi + 1)

FnMatch(name, pat) == FnMatchAt(name, 1, pat, 1)

StarStar == <<"*", "*">>

\* the components of a glob pattern: empty and "." components are dropped
PatternParts(pattern) ==
    SelectSeq(SplitOn(pattern, "/"), LAMBDA c : c # <<>> /\ c # <<".">>)

\* Path.glob refuses an empty pattern and a pattern that starts at the root
GlobRaises(pattern) ==
    \/ pattern = <<>>
    \/ Head(pattern) = "/"
    \/ PatternParts(pattern) = <<>>

\* a path below the root against the components of a pattern
RECURSIVE GlobMatch(_, _)
GlobMatch(segs, p) ==
    IF segs = <<>> THEN p = <<>>
    ELSE IF Head(segs) = StarStar
         THEN \/ GlobMatch(Tail(segs), p)
              \/ p # <<>> /\ GlobMatch(segs, Tail(p))
    ELSE /\ p # <<>>
         /\ FnMatch(Head(p), Head(segs))
         /\ GlobMatch(Tail(segs), Tail(p))

\* the directories the entries of the tree lie in
Ancestors(t) ==
    UNION { { SubSeq(p, 1, n) : n \in 1..(Len(p) - 1) } : p \in DOMAIN t }

IsDir(t, p) == p \in Ancestors(t) \/ (p \in DOMAIN t /\ t[p] = "dir")
\* Path.is_file()
IsFile(t, p) == p \in DOMAIN t /\ t[p] # "dir"

\* base_path.glob(pattern): the paths below the root the pattern selects;
\* a final "**" selects directories only
Glob(t, pattern) ==
    LET segs == PatternParts(pattern)
    IN { p \in DOMAIN t \cup Ancestors(t) :
           /\ GlobMatch(segs, p)
           /\ (segs[Len(segs)] = StarStar => IsDir(t, p)) }

\* how a directory can fail to be read: os.scandir and os.stat below it raise
\* PermissionError ("denied") or another OSError such as EIO ("ioerror")
FaultKinds == {"denied", "ioerror"}

\* the directories whose reading may fail: the root itself and s
FaultDirs == { <<>>, <<N_s>> }

\* at most one directory of the tree fails
DirFaults(t) ==
    {EmptyDict} \cup
    UNION { [{d} -> FaultKinds] : d \in { e \in FaultDirs : e = <<>> \/ IsDir(t, e) } }

\* pathlib._is_wildcard_pattern
IsWildcard(seg) == Contains(seg, "*") \/ Contains(seg, "?") \/ Contains(seg, "[")

\* the entries of a directory
Children(t, dir) ==
    { p \in DOMAIN t \cup Ancestors(t) :
        Len(p) = Len(dir) + 1 /\ SubSeq(p, 1, Len(dir)) = dir }

\* _RecursiveWildcardSelector._iterate_directories: the directory itself
\* and, when it can be scanned, the directories below it
RECURSIVE IterateDirectories(_, _, _)
IterateDirectories(t, bad, dir) ==
    {dir} \cup
    (IF dir \in bad THEN {}
     ELSE UNION { IterateDirectories(t, bad, c) :
                  c \in { e \in Children(t, dir) : IsDir(t, e) } })

\* the directories the selectors of a pattern read (scandir for a wildcard
\* component and for "**", stat of the child for a literal component)
RECURSIVE Touched(_, _, _, _)
Touched(t, bad, segs, dir) ==
    IF segs = <<>> THEN {}
    ELSE IF Head(segs) = StarStar
         THEN LET dirs == IterateDirectories(t, bad, dir)
              IN dirs \cup UNION { Touched(t, bad, Tail(segs), d) : d \in dirs }
    ELSE {dir} \cup
         (IF dir \in bad THEN {}
          ELSE UNION { Touched(t, bad, Tail(segs), c) :
                       c \in { e \in Children(t, dir) :
                                 /\ IF IsWildcard(Head(segs))
                                    THEN FnMatch(e[Len(e)], Head(segs))
                                    ELSE e[Len(e)] = Head(segs)
                                 /\ IsDir(t, e) } })

\* the glob reads a directory whose error pathlib does not swallow
\* (pathlib catches PermissionError only)
ScanRaises(t, f, pattern) ==
    \E d \in Touched(t, DOMAIN f, PatternParts(pattern), <<>>) :
        d \in DOMAIN f /\ f[d] = "ioerror"

\* what the glob yields: what the pattern selects, less what lies below a
\* directory that could not be read
GlobSeen(t, f, pattern) ==
    { p \in Glob(t, pattern) :
        \A n \in 0..(Len(p) - 1) : SubSeq(p, 1, n) \notin DOMAIN f }

\* f"**/[!.]*/{pattern}"
RecursivePattern(pattern) ==
    <<"*", "*", "/", "[", "!", ".", "]", "*", "/">> \o pattern

\* str(path)
Str(parts) ==
    IF parts # <<>> /\ Head(parts) = N_root
    THEN <<"/">> \o Join(Tail(parts), <<"/">>)
    ELSE Join(parts, <<"/">>)

StartsWithDot(name) == name # <<>> /\ Head(name) = "."
Parts(path) == { path[i] : i \in 1..Len(path) }

\* is_binary_file: a NUL byte among the first 1024 bytes
IsBinaryFile(t, rel) == t[rel] = "nul"

ShouldProcessFileUnseen(base, t, rel, seen) ==
    /\ IsFile(t, rel)
    /\ N_git \notin Parts(base \o rel)
    /\ ~\E part \in Parts(base \o rel) : StartsWithDot(part)
    /\ ~IsBinaryFile(t, rel)

ShouldProcessFileGitOnly(base, t, rel, seen) ==
    /\ IsFile(t, rel)
    /\ Str(base \o rel) \notin seen
    /\ N_git \notin Parts(base \o rel)
    /\ ~IsBinaryFile(t, rel)

\* _should_process_file(file_path, seen_files), file_path = base / rel
ShouldProcessFile(base, t, rel, seen) ==
    LET file_path == base \o rel
    IN IF ~IsFile(t, rel) THEN FALSE
       ELSE IF Str(file_path) \in seen THEN FALSE
       ELSE IF N_git \in Parts(file_path) THEN FALSE
       ELSE IF \E part \in Parts(file_path) : StartsWithDot(part) THEN FALSE
       ELSE IF IsBinaryFile(t, rel) THEN FALSE
       ELSE TRUE

\* Path.suffix: from the last dot of the name, unless the name starts or
\* ends with that dot
RECURSIVE LastDot(_, _)
LastDot(name, i) ==
    IF i = 0 THEN 0 ELSE IF name[i] = "." THEN i ELSE LastDot(name, i - 1)

Suffix(name) ==
    LET i == LastDot(name, Len(name))
    IN IF i <= 1 \/ i = Len(name) THEN <<>> ELSE SubSeq(name, i, Len(name))

LowerStr(s) == [i \in 1..Len(s) |-> Lower(s[i])]

\* the denylist of should_skip_path, which find_files never consults
BinaryExtensions ==
    { <<".", "p", "y", "c">>, <<".", "s", "o">>, <<".", "p", "y", "d">>,
      <<".", "d", "l", "l">>, <<".", "e", "x", "e">>, <<".", "b", "i", "n">>,
      <<".", "p", "k", "l">>, <<".", "p", "d", "b">> }

HasBinaryExtension(path) == LowerStr(Suffix(path[Len(path)])) \in BinaryExtensions

\* the glob a pattern starts with, and the pattern each phase hands to glob
FirstPhase(pattern) == IF Contains(pattern, "/") THEN "direct" ELSE "root"
PhasePattern(pattern, phase) ==
    IF phase = "recursive" THEN RecursivePattern(pattern) ELSE pattern

FfInit ==
    /\ base_path \in BasePaths
    /\ tree \in Trees
    /\ faulty \in DirFaults(tree)
    /\ file_pattern \in FilePatternSet
    /\ ff_patterns = <<>>
    /\ ff_idx = 0
    /\ ff_phase = "none"
    /\ ff_todo = {}
    /\ matching_files = <<>>
    /\ seen_files = {}
    /\ ff_result = <<>>
    /\ ff_pc = "split"

FfConst == <<base_path, tree, faulty, file_pattern>>

\* find_files, up to the loop over the patterns
FfSplit ==
    /\ ff_pc = "split"
    /\ ff_patterns' = ExpandPatterns(file_pattern)
    /\ ff_idx' = 1
    /\ ff_phase' = FirstPhase(ExpandPatterns(file_pattern)[1])
    /\ ff_pc' = "glob"
    /\ UNCHANGED <<NotFf, FfConst, ff_todo, matching_files, seen_files, ff_result>>

FfGlobUncaught ==
    /\ ff_pc = "glob"
    /\ LET pattern == PhasePattern(ff_patterns[ff_idx], ff_phase)
       IN IF GlobRaises(pattern) \/ ScanRaises(tree, faulty, pattern)
          THEN /\ ff_pc' = "raised"
               /\ UNCHANGED <<ff_todo, ff_result>>
          ELSE /\ ff_todo' = GlobSeen(tree, faulty, pattern)
               /\ ff_pc' = "iter"
               /\ UNCHANGED ff_result
    /\ UNCHANGED <<NotFf, FfConst, ff_patterns, ff_idx, ff_phase, matching_files,
                   seen_files>>

\* `for file_path in self.base_path.glob(...)`: the glob is evaluated; an
\* exception it raises, at once or while it walks, is caught by find_files,
\* which drops matching_files and returns []
FfGlob ==
    /\ ff_pc = "glob"
    /\ LET pattern == PhasePattern(ff_patterns[ff_idx], ff_phase)
       IN IF GlobRaises(pattern) \/ ScanRaises(tree, faulty, pattern)
          THEN /\ ff_result' = <<>>
               /\ ff_pc' = "done"
               /\ UNCHANGED ff_todo
          ELSE /\ ff_todo' = GlobSeen(tree, faulty, pattern)
               /\ ff_pc' = "iter"
               /\ UNCHANGED ff_result
    /\ UNCHANGED <<NotFf, FfConst, ff_patterns, ff_idx, ff_phase, matching_files,
                   seen_files>>

\* one turn of the loop over the glob, the entries coming in directory order
FfVisit(rel) ==
    /\ ff_pc = "iter"
    /\ rel \in ff_todo
    /\ ff_todo' = ff_todo \ {rel}
    /\ IF ShouldProcessFile(base_path, tree, rel, seen_files)
       THEN /\ matching_files' = Append(matching_files, base_path \o rel)
            /\ seen_files' = seen_files \cup {Str(base_path \o rel)}
       ELSE UNCHANGED <<matching_files, seen_files>>
    /\ UNCHANGED <<NotFf, FfConst, ff_patterns, ff_idx, ff_phase, ff_result, ff_pc>>

\* the glob is exhausted: the recursive glob of the pattern, the next
\* pattern, or `return matching_files`
FfEndGlob ==
    /\ ff_pc = "iter"
    /\ ff_todo = {}
    /\ IF ff_phase = "root"
       THEN /\ ff_phase' = "recursive"
            /\ ff_pc' = "glob"
            /\ UNCHANGED <<ff_idx, ff_result>>
       ELSE IF ff_idx < Len(ff_patterns)
       THEN /\ ff_idx' = ff_idx + 1
            /\ ff_phase' = FirstPhase(ff_patterns[ff_idx + 1])
            /\ ff_pc' = "glob"
            /\ UNCHANGED ff_result
       ELSE /\ ff_result' = matching_files
            /\ ff_pc' = "done"
            /\ UNCHANGED <<ff_idx, ff_phase>>
    /\ UNCHANGED <<NotFf, FfConst, ff_patterns, ff_todo, matching_files, seen_files>>

----------------------------------------------------------------------------
(* ReportGenerator.export_csv and the helpers it calls *)

N_clone == <<"c", "l", "o", "n", "e">>
N_q == <<"q">>

\* the keys of the mappings exported: files of two repositories cloned by
\* main below /w/clone, a file of a workspace that is itself below a
\* directory named clone, and two root-relative paths
ReportKeys ==
    { Str(<<N_root, N_w, N_clone, N_r, N_a_tf>>),
      Str(<<N_root, N_w, N_clone, N_q, N_s, N_a_tf>>),
      Str(<<N_root, N_clone, N_w, N_clone, N_r, N_a_tf>>),
      Str(<<N_s, N_a_tf>>),
      Str(<<N_a_tf>>) }

\* the match lists of a file: ascending line numbers, or none at all
RECURSIVE Ascending(_)
Ascending(S) ==
    IF S = {} THEN <<>>
    ELSE LET lo == CHOOSE n \in S : \A o \in S : n <= o
         IN <<[line_number |-> lo]>> \o Ascending(S \ {lo})

MatchLists == { Ascending(S) : S \in SUBSET (1..MaxSearchLines) }

\* the mappings exported: up to MaxReportFiles distinct keys
ReportData ==
    { d \in SeqsUpTo([file_path : ReportKeys, matches : MatchLists], MaxReportFiles) :
        \A i \in 1..Len(d) : \A j \in 1..Len(d) :
            i # j => d[i].file_path # d[j].file_path }

GhOrgs == { <<>>, <<"o">> }

\* Path(full_path).parts
PathParts(full_path) ==
    LET comps == SelectSeq(SplitOn(full_path, "/"), LAMBDA c : c # <<>> /\ c # <<".">>)
    IN IF full_path # <<>> /\ Head(full_path) = "/" THEN <<N_root>> \o comps ELSE comps

\* parts.index(x), 1-based; 0 when x is not among the parts
RECURSIVE IndexFrom(_, _, _)
IndexFrom(parts, x, i) ==
    IF i > Len(parts) THEN 0
    ELSE IF parts[i] = x THEN i
    ELSE IndexFrom(parts, x, i + 1)

\* str(Path(*parts))
StrPath(parts) == IF parts = <<>> THEN <<".">> ELSE Str(parts)

\* _get_relative_path(full_path): (repo_name, relative_path)
GetRelativePath(full_path) ==
    LET parts == PathParts(full_path)
        clone_idx == IndexFrom(parts, N_clone, 1)
    IN IF clone_idx # 0
       THEN IF Len(parts) > clone_idx
            THEN [repo_name |-> parts[clone_idx + 1],
                  relative_path |-> StrPath(SubSeq(parts, clone_idx + 2, Len(parts)))]
            ELSE [repo_name |-> <<>>, relative_path |-> full_path]
       ELSE IF Len(parts) > 0
            THEN [repo_name |-> IF Len(parts) > 1 THEN parts[Len(parts) - 1] ELSE <<>>,
                  relative_path |-> parts[Len(parts)]]
            ELSE [repo_name |-> <<>>, relative_path |-> full_path]

UrlPrefix == <<"h", "t", "t", "p", "s", ":", "/", "/", "g", "i", "t", "h", "u", "b",
               ".", "c", "o", "m", "/">>

\* _get_repo_url(repo_name)
GetRepoUrl(github_org, repo_name) ==
    IF repo_name # <<>> /\ github_org # <<>>
    THEN UrlPrefix \o github_org \o <<"/">> \o repo_name
    ELSE <<>>

\* a cell of the line_number column: the number, or nothing
Cell(n) == <<n>>
EmptyCell == <<>>

Entry(repo_name, repo_url, relative_path, cell) ==
    [repository |-> repo_name, repository_url |-> repo_url,
     file_path |-> relative_path, line_number |-> cell]

\* the body of the loop over data.items(): the entries one item adds
EntriesOf(github_org, item) ==
    LET rel == GetRelativePath(item.file_path)
        repo_url == GetRepoUrl(github_org, rel.repo_name)
    IN IF rel.repo_name # <<>> /\ rel.relative_path # <<>>
       THEN IF item.matches # <<>>
            THEN [k \in 1..Len(item.matches) |->
                    Entry(rel.repo_name, repo_url, rel.relative_path,
                          Cell(item.matches[k].line_number))]
            ELSE << Entry(rel.repo_name, repo_url, rel.relative_path, EmptyCell) >>
       ELSE <<>>

Columns == <<"repository", "repository_url", "file_path", "line_number">>
NoFile == [exists |-> FALSE, header |-> <<>>, rows |-> <<>>]
\* Path(output_path).touch()
EmptyFile == [exists |-> TRUE, header |-> <<>>, rows |-> <<>>]
\* df.to_csv(output_path, index=False)
CsvOf(entries) == [exists |-> TRUE, header |-> Columns, rows |-> entries]

CsvInit ==
    /\ gh_org \in GhOrgs
    /\ csv_data \in ReportData
    /\ csv_idx = 1
    /\ all_entries = <<>>
    /\ csv_file = NoFile
    /\ csv_pc = "loop"

\* one turn of `for file_path, file_data in data.items()`, or its end
CsvEntry ==
    /\ csv_pc = "loop"
    /\ IF csv_idx <= Len(csv_data)
       THEN /\ all_entries' = all_entries \o EntriesOf(gh_org, csv_data[csv_idx])
            /\ csv_idx' = csv_idx + 1
            /\ UNCHANGED csv_pc
       ELSE /\ csv_pc' = "write"
            /\ UNCHANGED <<all_entries, csv_idx>>
    /\ UNCHANGED <<NotCsv, gh_org, csv_data, csv_file>>

\* `if all_entries:` the frame is written, the write succeeding or raising;
\* otherwise an empty file is created
CsvWrite ==
    /\ csv_pc = "write"
    /\ IF all_entries # <<>>
       THEN \E written \in BOOLEAN :
               IF written
               THEN csv_file' = CsvOf(all_entries) /\ csv_pc' = "done"
               ELSE csv_file' = csv_file /\ csv_pc' = "raised"
       ELSE csv_file' = EmptyFile /\ csv_pc' = "done"
    /\ UNCHANGED <<NotCsv, gh_org, csv_data, csv_idx, all_entries>>

----------------------------------------------------------------------------
(* main up to the repository list; GitHubHandler.__init__, get_organization, *)
(* _load_included_repos, _load_excluded_repos and list_repositories          *)

Unset == <<>>
\* a token GitHub accepts, a well-formed token it rejects, a malformed one
T_good == <<"g", "h", "p", "_", "a">>
T_revoked == <<"g", "h", "p", "_", "b">>
T_malformed == <<"x">>
O1 == <<"o">>
O2 == <<"p">>

EnvNames == {"GH_TOKEN", "GH_ORG", "GITHUB_TOKEN", "GITHUB_ORG"}

\* the environments tried
Environs ==
    { e \in [EnvNames -> {Unset, T_good, T_revoked, T_malformed, O1, O2}] :
        /\ e["GH_TOKEN"] \in {Unset, T_good}
        /\ e["GH_ORG"] \in {Unset, O1}
        /\ e["GITHUB_TOKEN"] \in {Unset, T_good, T_revoked, T_malformed}
        /\ e["GITHUB_ORG"] \in {Unset, O1, O2} }

\* GitHub: the tokens it accepts and the organizations it knows
ValidTokens == {T_good}
KnownOrgs == {O1}

\* the repositories GitHub enumerates for O1
HubRepoLists == { <<>>, <<N_r>>, <<N_r, N_q>>, <<N_q, N_r>> }

Header == <<"r", "e", "p", "o", "s", "i", "t", "o", "r", "y">>
HeaderCapital == <<"R">> \o Tail(Header)

FileOf(content) == [exists |-> TRUE, content |-> content]
MissingFile == [exists |-> FALSE, content |-> <<>>]

\* the inclusion and exclusion files tried: missing, empty, header only,
\* header and names, names without header, blank lines and padding
ListFiles ==
    { MissingFile,
      FileOf(<<>>),
      FileOf(Header \o <<NL>>),
      FileOf(HeaderCapital \o <<NL>> \o N_r \o <<NL>>),
      FileOf(N_r \o <<NL, NL, " ">> \o N_q \o <<" ", NL>>),
      FileOf(N_q) }

StartsWith(sq, prefix) ==
    Len(sq) >= Len(prefix) /\ SubSeq(sq, 1, Len(prefix)) = prefix

Prefix_ghp == <<"g", "h", "p", "_">>
Prefix_pat == <<"g", "i", "t", "h", "u", "b", "_", "p", "a", "t", "_">>

\* x or y, of Python, on strings
Or(x, y) == IF x # <<>> THEN x ELSE y

ToSet(sq) == { sq[i] : i \in 1..Len(sq) }

\* _load_included_repos / _load_excluded_repos: the first line unless it is
\* the header, then every later line that is not blank
LoadRepos(file) ==
    IF ~file.exists THEN {}
    ELSE LET lines == SplitOn(file.content, NL)
             first_line == Strip(Head(lines))
         IN (IF LowerStr(first_line) # Header THEN {first_line} ELSE {})
            \cup (ToSet([i \in 1..(Len(lines) - 1) |-> Strip(lines[i + 1])]) \ {<<>>})

\* the two tests of the loop of list_repositories: is the repository kept
Keep(name, included, excluded) ==
    IF name \in excluded THEN FALSE
    ELSE IF included # {} /\ name \notin included THEN FALSE
    ELSE TRUE

LsInit ==
    /\ environ \in Environs
    /\ arg_org \in {Unset, O1}
    /\ arg_limit \in {0, 1}
    /\ hub_repos \in HubRepoLists
    /\ inclusion_file \in ListFiles
    /\ exclusion_file \in ListFiles
    /\ token = Unset
    /\ org = Unset
    /\ included_repos = {}
    /\ excluded_repos = {}
    /\ lr_idx = 0
    /\ filtered_repos = <<>>
    /\ repos = <<>>
    /\ ls_error = ""
    /\ ls_pc = "env"

LsInputs == <<environ, arg_org, arg_limit, hub_repos, inclusion_file, exclusion_file>>
LsLocals == <<included_repos, excluded_repos, lr_idx, filtered_repos>>

\* main: `if not github_token or not github_org: ... return 1`
EnvCheck ==
    /\ ls_pc = "env"
    /\ IF environ["GH_TOKEN"] = Unset \/ environ["GH_ORG"] = Unset
       THEN ls_error' = "environment" /\ ls_pc' = "exit1"
       ELSE ls_error' = ls_error /\ ls_pc' = "handler"
    /\ UNCHANGED <<NotLs, LsInputs, LsLocals, token, org, repos>>

\* GitHubHandler(debug=args.debug): the token, its format, the
\* authentication; a ValueError ends main with exit code 1
HandlerInit ==
    /\ ls_pc = "handler"
    /\ LET tok == Or(Unset, environ["GITHUB_TOKEN"])
       IN /\ token' = tok
          /\ IF tok = Unset
             THEN ls_error' = "token required" /\ ls_pc' = "exit1"
             ELSE IF ~(StartsWith(tok, Prefix_ghp) \/ StartsWith(tok, Prefix_pat))
             THEN ls_error' = "token format" /\ ls_pc' = "exit1"
             ELSE IF tok \notin ValidTokens
             THEN ls_error' = "authentication failed" /\ ls_pc' = "exit1"
             ELSE ls_error' = ls_error /\ ls_pc' = "org"
    /\ UNCHANGED <<NotLs, LsInputs, LsLocals, org, repos>>

\* list_repositories(args.org): org = self.get_organization(org_name)
GetOrganization ==
    /\ ls_pc = "org"
    /\ LET org_name == Or(arg_org, environ["GITHUB_ORG"])
       IN IF org_name = Unset
          THEN ls_error' = "organization required" /\ ls_pc' = "exit1" /\ org' = org
          ELSE IF org_name \notin KnownOrgs
          THEN ls_error' = "organization not found" /\ ls_pc' = "exit1" /\ org' = org
          ELSE ls_error' = ls_error /\ ls_pc' = "load" /\ org' = org_name
    /\ UNCHANGED <<NotLs, LsInputs, LsLocals, token, repos>>

\* included_repos = self._load_included_repos();
\* excluded_repos = self._load_excluded_repos()
LoadLists ==
    /\ ls_pc = "load"
    /\ included_repos' = LoadRepos(inclusion_file)
    /\ excluded_repos' = LoadRepos(exclusion_file)
    /\ lr_idx' = 1
    /\ ls_pc' = "filter"
    /\ UNCHANGED <<NotLs, LsInputs, filtered_repos, token, org, repos, ls_error>>

\* one turn of `for repo in repos`, or `return filtered_repos`
FilterRepo ==
    /\ ls_pc = "filter"
    /\ IF lr_idx <= Len(hub_repos)
       THEN /\ filtered_repos' =
                  IF Keep(hub_repos[lr_idx], included_repos, excluded_repos)
                  THEN Append(filtered_repos, hub_repos[lr_idx])
                  ELSE filtered_repos
            /\ lr_idx' = lr_idx + 1
            /\ UNCHANGED <<repos, ls_pc>>
       ELSE /\ repos' = filtered_repos
            /\ ls_pc' = "limit"
            /\ UNCHANGED <<filtered_repos, lr_idx>>
    /\ UNCHANGED <<NotLs, LsInputs, included_repos, excluded_repos, token, org, ls_error>>

\* main: `repos = repos[:args.limit]`, and `return 0` when none is left
ApplyLimit ==
    /\ ls_pc = "limit"
    /\ LET limited == IF arg_limit > 0 THEN SubSeq(repos, 1, Min(arg_limit, Len(repos)))
                      ELSE repos
       IN /\ repos' = limited
          /\ ls_pc' = IF limited = <<>> THEN "exit0" ELSE "ready"
    /\ UNCHANGED <<NotLs, LsInputs, LsLocals, token, org, ls_error>>

----------------------------------------------------------------------------
(* main: the pattern rewrite, the repository loop, the cleanup, the report *)

P_tf == <<"*", ".", "t", "f">>
P_any == <<".", "*">>

\* --pattern, --contents ("" when not given), --keep-clones
ArgSets ==
    [pattern : {P_tf, <<"a">>, <<"a", ",", " ", "b">>},
     file_pattern : {<<"*">>},
     contents : {Unset, <<"b">>},
     keep_clones : BOOLEAN]

RepoNames == {N_r, N_q}
RepoLists == { <<N_r>>, <<N_r, N_q>>, <<N_q, N_r>> }

MainLineSet == { <<"a", ".">>, <<"b">> }

\* what find_files returns in a clone: nothing, or the one file a.tf
NoFiles == <<>>
FoundFiles ==
    {NoFiles} \cup { <<TextFile(TextOf(ls, FALSE), {})>> :
                        ls \in SeqsUpTo(MainLineSet, MaxSearchLines) }

\* how a repository behaves: git fails to clone it, its analysis raises, or
\* it is cloned and find_files returns `found`
Remotes ==
    { [outcome |-> "clone_fails", found |-> NoFiles],
      [outcome |-> "raises", found |-> NoFiles] }
    \cup { [outcome |-> "ok", found |-> f] : f \in FoundFiles }

CloneRoot == <<N_root, N_w, N_clone>>

\* str(file_path) of the file a.tf of the clone of repo
FileKey(repo) == Str(CloneRoot \o <<repo, N_a_tf>>)

\* search_pattern(files, pattern) as main receives it: path -> {'matches': ...}
SearchPattern(found, repo, pattern) ==
    IF found = NoFiles THEN EmptyDict
    ELSE LET res == ProcessFile(found[1], FileKey(repo), pattern, DefaultContextSize)
         IN IF res.some THEN [k \in {FileKey(repo)} |-> [matches |-> res.matches]]
            ELSE EmptyDict

\* [p.strip() for p in s.split(',')]
PatternList(p) == StripAll(SplitOn(p, ","))

\* the loop over the patterns: results.update(pattern_results) when not empty
RECURSIVE SearchAll(_, _, _, _, _)
SearchAll(found, repo, pats, i, res) ==
    IF i > Len(pats) THEN res
    ELSE LET pattern_results == SearchPattern(found, repo, pats[i])
         IN SearchAll(found, repo, pats, i + 1,
                      IF pattern_results # EmptyDict
                      THEN DictUpdate(res, pattern_results) ELSE res)

\* the body of `if files:` for one repository: the dict `results`
RepoResults(found, repo, a) ==
    IF found = NoFiles THEN EmptyDict
    ELSE IF a.contents # Unset
         THEN SearchAll(found, repo, PatternList(a.contents), 1, EmptyDict)
         ELSE SearchAll(found, repo, PatternList(a.pattern), 1, EmptyDict)

NoReport == [written |-> FALSE, data |-> EmptyDict]

LoopInit ==
    /\ args \in ArgSets
    /\ repo_list \in RepoLists
    /\ remote \in [RepoNames -> Remotes]
    /\ clone_dir \in {{}, {N_r}}
    /\ repo_idx = 0
    /\ all_results = EmptyDict
    /\ report = NoReport
    /\ main_pc = "start"

LoopInputs == <<repo_list, remote>>

\* main: `if args.pattern.startswith('*.')`
RewritePattern ==
    /\ main_pc = "start"
    /\ args' = IF StartsWith(args.pattern, <<"*", ".">>)
               THEN [args EXCEPT !.file_pattern = args.pattern, !.pattern = P_any]
               ELSE args
    /\ main_pc' = "setup"
    /\ UNCHANGED <<NotLoop, LoopInputs, clone_dir, repo_idx, all_results, report>>

\* clone_dir = setup_clone_directory(...); all_results = {}
SetupCloneDirectory ==
    /\ main_pc = "setup"
    /\ clone_dir' = {}
    /\ all_results' = EmptyDict
    /\ repo_idx' = 1
    /\ main_pc' = "clone"
    /\ UNCHANGED <<NotLoop, LoopInputs, args, report>>

\* github.clone_repository(repo, repo_path, ...): a ValueError when the
\* target exists, a GitCommandError when git fails; main goes to the next
\* repository on both
CloneRepository ==
    /\ main_pc = "clone"
    /\ repo_idx <= Len(repo_list)
    /\ LET repo == repo_list[repo_idx]
       IN IF repo \in clone_dir \/ remote[repo].outcome = "clone_fails"
          THEN /\ repo_idx' = repo_idx + 1
               /\ UNCHANGED <<clone_dir, main_pc>>
          ELSE /\ clone_dir' = clone_dir \cup {repo}
               /\ main_pc' = "analyze"
               /\ UNCHANGED repo_idx
    /\ UNCHANGED <<NotLoop, LoopInputs, args, all_results, report>>

AnalyzeRaiseLeavesLoop ==
    /\ main_pc = "analyze"
    /\ LET repo == repo_list[repo_idx]
           results_ == RepoResults(remote[repo].found, repo, args)
       IN IF remote[repo].outcome = "raises"
          THEN /\ main_pc' = "finally"
               /\ UNCHANGED <<all_results, repo_idx>>
          ELSE /\ all_results' = IF results_ # EmptyDict
                                 THEN DictUpdate(all_results, results_)
                                 ELSE all_results
               /\ repo_idx' = repo_idx + 1
               /\ main_pc' = "clone"
    /\ UNCHANGED <<NotLoop, LoopInputs, args, clone_dir, report>>

\* find_files and the searches of one repository, `all_results.update(results)`;
\* an exception takes main to the next repository
Analyze ==
    /\ main_pc = "analyze"
    /\ LET repo == repo_list[repo_idx]
           results_ == RepoResults(remote[repo].found, repo, args)
       IN /\ all_results' = IF remote[repo].outcome # "raises" /\ results_ # EmptyDict
                            THEN DictUpdate(all_results, results_)
                            ELSE all_results
          /\ repo_idx' = repo_idx + 1
          /\ main_pc' = "clone"
    /\ UNCHANGED <<NotLoop, LoopInputs, args, clone_dir, report>>

\* the loop has gone through the list
LoopEnd ==
    /\ main_pc = "clone"
    /\ repo_idx > Len(repo_list)
    /\ main_pc' = "finally"
    /\ UNCHANGED <<NotLoop, LoopInputs, args, clone_dir, repo_idx, all_results, report>>

\* a KeyboardInterrupt while a repository is being processed: no handler of
\* the loop catches it
Interrupt ==
    /\ main_pc \in {"clone", "analyze"}
    /\ repo_idx <= Len(repo_list)
    /\ main_pc' = "finally_exc"
    /\ UNCHANGED <<NotLoop, LoopInputs, args, clone_dir, repo_idx, all_results, report>>

CleanupOnNormalExitOnly ==
    /\ main_pc \in {"finally", "finally_exc"}
    /\ clone_dir' = IF ~args.keep_clones /\ main_pc = "finally" THEN {} ELSE clone_dir
    /\ main_pc' = IF main_pc = "finally" THEN "report" ELSE "interrupted"
    /\ UNCHANGED <<NotLoop, LoopInputs, args, repo_idx, all_results, report>>

\* the `finally` of the loop: rmtree and mkdir unless --keep-clones
Cleanup ==
    /\ main_pc \in {"finally", "finally_exc"}
    /\ clone_dir' = IF ~args.keep_clones THEN {} ELSE clone_dir
    /\ main_pc' = IF main_pc = "finally" THEN "report" ELSE "interrupted"
    /\ UNCHANGED <<NotLoop, LoopInputs, args, repo_idx, all_results, report>>

\* `if all_results:` the export, else "No matches found"; return 0
GenerateReport ==
    /\ main_pc = "report"
    /\ report' = IF all_results # EmptyDict
                 THEN [written |-> TRUE, data |-> all_results]
                 ELSE report
    /\ main_pc' = "done"
    /\ UNCHANGED <<NotLoop, LoopInputs, args, clone_dir, repo_idx, all_results>>

----------------------------------------------------------------------------
(* The specifications *)

PfIdle ==
    /\ pf_file = BrokenFile("missing")
    /\ pf_pattern = <<>>
    /\ pf_K = 0
    /\ pf_result = None
    /\ pf_pc = "idle"

SpIdle ==
    /\ fs = EmptyDict
    /\ files = <<>>
    /\ patterns = <<>>
    /\ pat_idx = 0
    /\ max_workers = 0
    /\ futures = <<>>
    /\ submitted = 0
    /\ yielded = <<>>
    /\ sp_results = EmptyDict
    /\ sp_raised = FALSE
    /\ history = <<>>
    /\ results = EmptyDict
    /\ pc = "idle"

FfIdle ==
    /\ base_path = <<>>
    /\ tree = EmptyDict
    /\ faulty = EmptyDict
    /\ file_pattern = <<>>
    /\ ff_patterns = <<>>
    /\ ff_idx = 0
    /\ ff_phase = "none"
    /\ ff_todo = {}
    /\ matching_files = <<>>
    /\ seen_files = {}
    /\ ff_result = <<>>
    /\ ff_pc = "idle"

CsvIdle ==
    /\ gh_org = <<>>
    /\ csv_data = <<>>
    /\ csv_idx = 0
    /\ all_entries = <<>>
    /\ csv_file = NoFile
    /\ csv_pc = "idle"

LsIdle ==
    /\ environ = [n \in EnvNames |-> Unset]
    /\ arg_org = Unset
    /\ arg_limit = 0
    /\ hub_repos = <<>>
    /\ inclusion_file = MissingFile
    /\ exclusion_file = MissingFile
    /\ token = Unset
    /\ org = Unset
    /\ included_repos = {}
    /\ excluded_repos = {}
    /\ lr_idx = 0
    /\ filtered_repos = <<>>
    /\ repos = <<>>
    /\ ls_error = ""
    /\ ls_pc = "idle"

LoopIdle ==
    /\ args = [pattern |-> <<>>, file_pattern |-> <<>>, contents |-> Unset,
               keep_clones |-> FALSE]
    /\ repo_list = <<>>
    /\ remote = [n \in RepoNames |-> [outcome |-> "ok", found |-> NoFiles]]
    /\ clone_dir = {}
    /\ repo_idx = 0
    /\ all_results = EmptyDict
    /\ report = NoReport
    /\ main_pc = "idle"

Init == SpInit /\ PfIdle /\ FfIdle /\ CsvIdle /\ LsIdle /\ LoopIdle
Next ==
    \/ Submit
    \/ \E i \in DOMAIN futures : Start(i)
    \/ \E i \in DOMAIN futures : Finish(i)
    \/ \E i \in DOMAIN futures : Collect(i)
    \/ Return
    \/ MainUpdate
Spec == Init /\ [][Next]_vars

InitFile == PfInit /\ SpIdle /\ FfIdle /\ CsvIdle /\ LsIdle /\ LoopIdle
NextFile == PfProcessFile
SpecFile == InitFile /\ [][NextFile]_vars

InitFind == FfInit /\ PfIdle /\ SpIdle /\ CsvIdle /\ LsIdle /\ LoopIdle
NextFind ==
    \/ FfSplit
    \/ FfGlob
    \/ \E rel \in ff_todo : FfVisit(rel)
    \/ FfEndGlob
SpecFind == InitFind /\ [][NextFind]_vars

InitCsv == CsvInit /\ PfIdle /\ SpIdle /\ FfIdle /\ LsIdle /\ LoopIdle
NextCsv ==
    \/ CsvEntry
    \/ CsvWrite
SpecCsv == InitCsv /\ [][NextCsv]_vars

InitList == LsInit /\ PfIdle /\ SpIdle /\ FfIdle /\ CsvIdle /\ LoopIdle
NextList ==
    \/ EnvCheck
    \/ HandlerInit
    \/ GetOrganization
    \/ LoadLists
    \/ FilterRepo
    \/ ApplyLimit
SpecList == InitList /\ [][NextList]_vars

InitMain == LoopInit /\ PfIdle /\ SpIdle /\ FfIdle /\ CsvIdle /\ LsIdle
NextMain ==
    \/ RewritePattern
    \/ SetupCloneDirectory
    \/ CloneRepository
    \/ Analyze
    \/ LoopEnd
    \/ Interrupt
    \/ Cleanup
    \/ GenerateReport
SpecMain == InitMain /\ [][NextMain]_vars

----------------------------------------------------------------------------
(* Properties of process_file (SpecFile) *)

PfLines == SplitLines(pf_file.content)
PfMatches == { pf_result.matches[j] : j \in 1..Len(pf_result.matches) }

\* C1: a match on line i of a file of N lines, with context size K, has
\* exactly min(K, i-1) lines of context before it and min(K, N-i) after it
C1_ContextLengths ==
    pf_pc = "returned" =>
        \A m \in PfMatches :
            /\ Len(m.context_before) = Min(pf_K, m.line_number - 1)
            /\ Len(m.context_after) = Min(pf_K, Len(PfLines) - m.line_number)

\* a first-line match clipped at the file start with a full window after it,
\* and a last-line match with a full window before it and nothing after
C1_Witness ==
    /\ pf_pc = "returned"
    /\ pf_K = 2
    /\ Len(PfLines) = 4
    /\ \E m \in PfMatches :
          m.line_number = 1 /\ m.context_before = <<>> /\ Len(m.context_after) = 2
    /\ \E m \in PfMatches :
          m.line_number = 4 /\ Len(m.context_before) = 2 /\ m.context_after = <<>>

\* the trimmed lines lo..hi of the file, in file order
TrimmedLines(lines, lo, hi) == [j \in 1..(hi - lo + 1) |-> Strip(lines[lo + j - 1])]

\* C2: context_before is the trimmed lines i-K..i-1 that exist and
\* context_after the trimmed lines i+1..i+K that exist, both in file order;
\* line i itself is in neither
C2_ContextContent ==
    pf_pc = "returned" =>
        \A m \in PfMatches :
            LET i == m.line_number
            IN /\ m.context_before = TrimmedLines(PfLines, Max(1, i - pf_K), i - 1)
               /\ m.context_after =
                    TrimmedLines(PfLines, i + 1, Min(Len(PfLines), i + pf_K))

\* a match on line 3 with K = 2 whose context holds lines 1-2, trimmed, and line 4
C2_Witness ==
    /\ pf_pc = "returned"
    /\ pf_K = 2
    /\ Len(PfLines) = 4
    /\ PfLines[1] = <<" ", "A", " ">>
    /\ \E m \in PfMatches :
          /\ m.line_number = 3
          /\ m.context_before = <<<<"A">>, Strip(PfLines[2])>>
          /\ m.context_after = <<Strip(PfLines[4])>>

\* C3: the matches of a file are strictly ascending by line_number, every
\* line_number lies in 1..N, so a line yields at most one match record
C3_StrictlyAscending ==
    pf_pc = "returned" =>
        /\ \A j \in 1..Len(pf_result.matches) :
              pf_result.matches[j].line_number \in 1..Len(PfLines)
        /\ \A j, k \in 1..Len(pf_result.matches) :
              j < k => pf_result.matches[j].line_number
                         < pf_result.matches[k].line_number

\* every line of a three-line file matches, one of them at two positions
C3_Witness ==
    /\ pf_pc = "returned"
    /\ pf_pattern = <<".">>
    /\ Len(PfLines) >= 3
    /\ PfLines[2] = <<"a", "b">>
    /\ Len(pf_result.matches) = Len(PfLines)

PatternCompiles(p) == ReCompile(EffectivePattern(p)).ok

\* the line numbers process_file reported, and the lines whose scan ended
\* without an exception
PfReported == { m.line_number : m \in PfMatches }
PfScanned == { n \in 1..Len(PfLines) : n \notin pf_file.faults }

\* a wildcard pattern read as the claim reads it, found from position li of
\* the line on: "*" is any run of characters, "?" is one character, every
\* other character stands for itself (letter case aside)
RECURSIVE WildAt(_, _, _, _)
WildAt(p, pi, line, li) ==
    IF pi > Len(p) THEN TRUE
    ELSE IF p[pi] = "*"
         THEN \/ WildAt(p, pi + 1, line, li)
              \/ li <= Len(line) /\ WildAt(p, pi, line, li + 1)
    ELSE IF p[pi] = "?"
         THEN li <= Len(line) /\ WildAt(p, pi + 1, line, li + 1)
    ELSE /\ li <= Len(line)
         /\ Lower(line[li]) = Lower(p[pi])
         /\ WildAt(p, pi + 1, line, li + 1)

WildSearch(p, line) == \E st \in 1..(Len(line) + 1) : WildAt(p, 1, line, st)

Letters == {"a", "b", "A", "B"}
IsLiteral(p) == p # <<>> /\ \A i \in 1..Len(p) : p[i] \in Letters

\* p is a substring of the line, letter case aside
ContainsIgnoreCase(line, p) ==
    \E st \in 1..(Len(line) - Len(p) + 1) :
        \A j \in 1..Len(p) : Lower(line[st + j - 1]) = Lower(p[j])

\* C16: a line is reported exactly when the compiled pattern is found
\* somewhere in it, letter case ignored; for a pattern of letters, exactly
\* when the line contains the pattern as a substring, letter case ignored
C16_UnanchoredIgnoreCase ==
    (pf_pc = "returned" /\ pf_file.kind = "text") =>
        /\ PatternCompiles(pf_pattern) =>
              PfReported =
                { n \in PfScanned :
                    ReSearch(ReCompile(EffectivePattern(pf_pattern)).atoms, PfLines[n]) }
        /\ IsLiteral(pf_pattern) =>
              PfReported = { n \in PfScanned : ContainsIgnoreCase(PfLines[n], pf_pattern) }

\* the pattern "a" finds the line " A ": inside the line, in the other case
C16_Witness ==
    /\ pf_pc = "returned"
    /\ pf_pattern = <<"a">>
    /\ PfLines = << <<" ", "A", " ">>, <<"b">> >>
    /\ PfReported = {1}

----------------------------------------------------------------------------
(* Properties of search_pattern and of main's pattern loop (Spec) *)

CurrentPattern == patterns[pat_idx]

SeqToSet(sq) == { sq[j] : j \in 1..Len(sq) }

\* the (file, line_number, line_content) triples of a result mapping
Triples(d) ==
    UNION { { <<k, m.line_number, m.line_content>> : m \in SeqToSet(d[k].matches) } :
            k \in DOMAIN d }

\* what one file of the list yields when searched on its own
Alone(path) == ProcessFile(fs[path], path, CurrentPattern, DefaultContextSize)

\* C4: no key of the mapping returned by search_pattern has an empty list
C4_NoEmptyKey ==
    /\ \A k \in DOMAIN sp_results : sp_results[k].matches # <<>>
    /\ \A j \in 1..Len(history) :
          \A k \in DOMAIN history[j] : history[j][k].matches # <<>>

\* a readable file without a matching line is left out while another is kept
C4_Witness ==
    /\ pc = "returned"
    /\ PatternCompiles(CurrentPattern)
    /\ fs["f1"].kind = "text" /\ fs["f1"].faults = {}
    /\ SplitLines(fs["f1"].content) # <<>>
    /\ DOMAIN sp_results = {"f2"}

\* C5: whatever the pool size and the order in which the tasks run and are
\* collected, search_pattern returns the same set of triples: those of the
\* files searched one by one
C5_PoolIndependent ==
    pc = "returned" =>
        Triples(sp_results) =
            UNION { { <<files[i], m.line_number, m.line_content>> :
                        m \in SeqToSet(Alone(files[i]).matches) } :
                    i \in 1..Len(files) }

\* two workers, the second file collected before the first, both with matches
C5_Witness ==
    /\ pc = "returned"
    /\ max_workers = 2
    /\ yielded = <<2, 1>>
    /\ DOMAIN sp_results = {"f1", "f2"}
    /\ sp_results["f1"] # sp_results["f2"]

\* C6: a pattern that does not compile makes the search call fail
C6_InvalidPatternAborts ==
    (pc = "returned" /\ ~PatternCompiles(CurrentPattern)) => sp_raised

\* files that cannot be read at all
Broken(path) == fs[path].kind # "text"
\* files in which the scan of some line raises
LineFaulty(path) ==
    fs[path].kind = "text"
    /\ fs[path].faults \cap (1..Len(SplitLines(fs[path].content))) # {}

\* the lines of a file the pattern is found in
MatchingLines(path) ==
    LET lines == SplitLines(fs[path].content)
        compiled == ReCompile(EffectivePattern(CurrentPattern))
    IN IF fs[path].kind # "text" \/ ~compiled.ok THEN {}
       ELSE { n \in 1..Len(lines) : ReSearch(compiled.atoms, lines[n]) }

LineNumbers(entry) == { m.line_number : m \in SeqToSet(entry.matches) }
ReportedLines(d, path) == IF path \in DOMAIN d THEN LineNumbers(d[path]) ELSE {}

C8_PatternsMerged ==
    pc = "done" =>
        \A j \in 1..Len(history) :
            \A k \in DOMAIN history[j] :
                /\ k \in DOMAIN results
                /\ SeqToSet(history[j][k].matches) \subseteq SeqToSet(results[k].matches)

\* the context sizes a caller of the search may ask for
ContextSizes == 0..MaxK

\* what a file yields when searched on its own with context size K
AloneWith(path, K) == ProcessFile(fs[path], path, CurrentPattern, K)

\* C17: the search uses the context size its caller supplies as K for every
\* match of the invocation (and 2 when the caller supplies none): whatever
\* size the caller asked for, the entries returned are those of that size
C17_CallerContextSize ==
    pc = "returned" =>
        \A K \in ContextSizes : \A path \in DOMAIN sp_results :
            sp_results[path].matches = AloneWith(path, K).matches

\* the result mapping changes in two ways only: the collector stores the
\* whole match list of one finished task under its path, the futures left
\* alone, or the next call of search_pattern starts with an empty mapping
CollectorInsert ==
    \/ /\ pc = "returned"
       /\ sp_results' = EmptyDict
    \/ /\ pc = "collect"
       /\ futures' = futures
       /\ \E i \in DOMAIN futures :
             /\ futures[i].state = "finished"
             /\ yielded' = Append(yielded, i)
             /\ futures[i].result.matches = Alone(files[i]).matches
             /\ sp_results' = DictSet(sp_results, files[i],
                                      [matches |-> futures[i].result.matches])

\* C19: only the collector writes to the result mapping of search_pattern:
\* no step of a worker changes it, an insert comes after its task finished
\* and stores the file's complete match list at once, so every entry is
\* complete in every state
C19_CollectorOnlyWrites ==
    /\ [](\A path \in DOMAIN sp_results :
              sp_results[path].matches = Alone(path).matches)
    /\ [][sp_results' # sp_results => CollectorInsert]_vars

\* the entry of f1 is in the mapping while the task of f2 is still running
C19_Witness ==
    /\ pc = "collect"
    /\ DOMAIN sp_results = {Paths[1]}
    /\ futures[2].state = "running"

\* the lines of a file the search reports: found by the pattern, their
\* scan not raising
FoundLines(path) == MatchingLines(path) \ fs[path].faults

\* the states a task goes through, one after the other
TaskSteps == { <<"none", "pending">>, <<"pending", "running">>,
               <<"running", "finished">> }

\* C20: every file is processed by one task, once; search_pattern returns
\* only when every task has finished, and the keys of what it returns are
\* the readable files with at least one line found, for every pool size and
\* every schedule
C20_AllTasksDoneOnReturn ==
    /\ [](pc = "returned" =>
            /\ \A i \in DOMAIN futures : futures[i].state = "finished"
            /\ DOMAIN sp_results =
                  { files[i] : i \in { j \in 1..Len(files) : FoundLines(files[j]) # {} } })
    /\ [][\A i \in DOMAIN futures :
            futures'[i].state # futures[i].state =>
                \/ <<futures[i].state, futures'[i].state>> \in TaskSteps
                \/ pc = "returned" /\ futures'[i].state = "none"]_vars

\* a pool of one thread, an undecodable first file, a second file with a
\* line found: the search has returned with the second file as its only key
C20_Witness ==
    /\ pc = "returned"
    /\ max_workers = 1
    /\ fs[Paths[1]].kind = "undecodable"
    /\ FoundLines(Paths[2]) # {}
    /\ DOMAIN sp_results = {Paths[2]}

----------------------------------------------------------------------------
(* Properties of find_files (SpecFind) *)

Returned == SeqToSet(matching_files) \cup SeqToSet(ff_result)

\* C9: find_files returns no file whose extension is on the binary denylist
C9_NoBinaryExtension ==
    ff_pc = "done" => \A path \in SeqToSet(ff_result) : ~HasBinaryExtension(path)

\* C10: no file collected or returned by find_files has a path component
\* that begins with "."
C10_NoHiddenComponent ==
    \A path \in Returned : \A part \in Parts(path) : ~StartsWithDot(part)

\* a pattern with a separator whose glob yielded a text file below .git, next
\* to a visible file that is returned
C10_Witness ==
    /\ ff_pc = "done"
    /\ file_pattern = <<"*", "*", "/", "*">>
    /\ <<N_git, N_s, N_a_tf>> \in DOMAIN tree
    /\ tree[<<N_git, N_s, N_a_tf>>] = "text"
    /\ <<N_git, N_s, N_a_tf>> \in Glob(tree, file_pattern)
    /\ ff_result = << base_path \o <<N_a_tf>> >>

\* the patterns of the list are names: none is empty, none has a separator
SeparatorFree(fp) ==
    \A i \in 1..Len(ExpandPatterns(fp)) :
        ExpandPatterns(fp)[i] # <<>> /\ ~Contains(ExpandPatterns(fp)[i], "/")

\* the exclusion rules: a hidden component below the root, an extension of
\* the binary denylist, a NUL byte at the start of the content
Excluded(t, rel) ==
    \/ \E part \in Parts(rel) : StartsWithDot(part)
    \/ HasBinaryExtension(rel)
    \/ IsBinaryFile(t, rel)

\* the regular files whose base name matches one of the name patterns
NameMatched(t, fp) ==
    { rel \in DOMAIN t :
        /\ IsFile(t, rel)
        /\ \E i \in 1..Len(ExpandPatterns(fp)) :
              FnMatch(rel[Len(rel)], ExpandPatterns(fp)[i]) }

\* C11: for a list of separator-free name patterns over a readable tree,
\* find_files returns exactly the non-excluded regular files, at any depth,
\* whose base name matches at least one of the patterns
C11_NamePatternsSelect ==
    (ff_pc = "done" /\ SeparatorFree(file_pattern) /\ faulty = EmptyDict) =>
        SeqToSet(ff_result) =
            { base_path \o rel : rel \in { r \in NameMatched(tree, file_pattern) :
                                              ~Excluded(tree, r) } }

NoDuplicates(list) ==
    \A i \in 1..Len(list) : \A j \in 1..Len(list) :
        i # j => Str(list[i]) # Str(list[j])

\* C12: the list find_files builds and returns never holds the same file
\* path twice, whatever the patterns
C12_NoDuplicatePaths == NoDuplicates(matching_files) /\ NoDuplicates(ff_result)

\* both patterns of "*.tf,a*" match a.tf, which is returned once
C12_Witness ==
    /\ ff_pc = "done"
    /\ file_pattern = <<"*", ".", "t", "f", ",", "a", "*">>
    /\ FnMatch(N_a_tf, ff_patterns[1])
    /\ FnMatch(N_a_tf, ff_patterns[2])
    /\ ff_result = << base_path \o <<N_a_tf>> >>

\* what the globs of the patterns select in a tree that can be read
Selected(t, fp) ==
    UNION { LET pattern == ExpandPatterns(fp)[i]
            IN IF GlobRaises(pattern) THEN {}
               ELSE IF Contains(pattern, "/") THEN Glob(t, pattern)
               ELSE Glob(t, pattern) \cup Glob(t, RecursivePattern(pattern))
            : i \in 1..Len(ExpandPatterns(fp)) }

\* rel lies in the subtree of dir
Below(rel, dir) == Len(rel) > Len(dir) /\ SubSeq(rel, 1, Len(dir)) = dir

\* C13: when reading one subdirectory fails, only its subtree is skipped:
\* the eligible files outside it are still returned
C13_ErrorSkipsSubtreeOnly ==
    (ff_pc = "done" /\ <<N_s>> \in DOMAIN faulty) =>
        \A rel \in Selected(tree, file_pattern) :
            (~Below(rel, <<N_s>>) /\ ShouldProcessFile(base_path, tree, rel, {}))
                => base_path \o rel \in SeqToSet(ff_result)

GlobPatterns(fp) ==
    UNION { IF Contains(ExpandPatterns(fp)[i], "/")
            THEN { ExpandPatterns(fp)[i] }
            ELSE { ExpandPatterns(fp)[i], RecursivePattern(ExpandPatterns(fp)[i]) }
            : i \in 1..Len(ExpandPatterns(fp)) }

\* the root-relative paths find_files returns for a tree when no component
\* of the root path begins with "."
VisibleRootResult(t, f, fp) ==
    IF \E g \in GlobPatterns(fp) : GlobRaises(g) \/ ScanRaises(t, f, g)
    THEN {}
    ELSE { rel \in UNION { GlobSeen(t, f, g) : g \in GlobPatterns(fp) } :
             ShouldProcessFile(<<N_root, N_w, N_r>>, t, rel, {}) }

\* C26: the root-relative paths find_files returns depend on the tree below
\* the root only, not on the components of the root path itself
C26_RootPathIrrelevant ==
    ff_pc = "done" =>
        { rel \in DOMAIN tree : base_path \o rel \in SeqToSet(ff_result) }
            = VisibleRootResult(tree, faulty, file_pattern)

----------------------------------------------------------------------------
(* Properties of export_csv (SpecCsv) *)

\* a SearchResults mapping: every file of it has at least one match
IsSearchResults(d) == \A i \in 1..Len(d) : d[i].matches # <<>>

\* the line numbers of all matches of the mapping, file after file
RECURSIVE AllLineNumbers(_)
AllLineNumbers(d) ==
    IF d = <<>> THEN <<>>
    ELSE [k \in 1..Len(Head(d).matches) |-> Cell(Head(d).matches[k].line_number)]
         \o AllLineNumbers(Tail(d))

\* C18: export_csv writes one row per match under the columns repository,
\* repository_url, file_path, line_number: for any SearchResults mapping
\* there are as many rows as matches, each with the line number of its match
C18_RowPerMatch ==
    (csv_pc = "done" /\ IsSearchResults(csv_data)) =>
        /\ Len(csv_file.rows) = Len(AllLineNumbers(csv_data))
        /\ [r \in 1..Len(csv_file.rows) |-> csv_file.rows[r].line_number]
              = AllLineNumbers(csv_data)
        /\ csv_file.rows # <<>> => csv_file.header = Columns

\* the paths main builds, <workspace>/clone/<repo>/<rel...>, with the
\* repository and the path inside it they stand for
MainPaths ==
    { [workspace |-> <<N_root, N_w>>, repo |-> N_r, rel |-> <<N_a_tf>>],
      [workspace |-> <<N_root, N_w>>, repo |-> N_q, rel |-> <<N_s, N_a_tf>>],
      [workspace |-> <<N_root, N_clone, N_w>>, repo |-> N_r, rel |-> <<N_a_tf>>] }

MainKey(mp) == Str(mp.workspace \o <<N_clone, mp.repo>> \o mp.rel)

\* C27: for a path <workspace>/clone/<repo>/<rel...> built by main the
\* rows of the report name <repo> and <rel...>, whatever the components of
\* <workspace> are
C27_RepoAndPathRecovered ==
    csv_pc = "done" =>
        \A i \in 1..Len(csv_data) : \A mp \in MainPaths :
            (csv_data[i].file_path = MainKey(mp) /\ csv_data[i].matches # <<>>) =>
                \E r \in 1..Len(csv_file.rows) :
                    /\ csv_file.rows[r].repository = mp.repo
                    /\ csv_file.rows[r].file_path = Str(mp.rel)

----------------------------------------------------------------------------
(* Properties of main's start and of list_repositories (SpecList) *)

LsDone == ls_pc \in {"exit0", "exit1", "ready"}

GhSupplied ==
    /\ environ["GH_TOKEN"] # Unset
    /\ environ["GH_ORG"] # Unset
    /\ arg_org = Unset

\* C22: with GH_TOKEN and GH_ORG in the environment and no --org argument,
\* the run does not end for a missing token or organization name, the handler
\* holds the token of GH_TOKEN and the organization listed is that of GH_ORG.
C22_GhVariablesUsed ==
    (LsDone /\ GhSupplied) =>
        /\ ls_error \notin {"environment", "token required", "organization required"}
        /\ token = environ["GH_TOKEN"]
        /\ ls_error = "" => org = environ["GH_ORG"]

\* the same, when GITHUB_TOKEN and GITHUB_ORG carry the same values
C22x_SameValues ==
    (LsDone /\ GhSupplied /\ environ["GITHUB_TOKEN"] = environ["GH_TOKEN"]
        /\ environ["GITHUB_ORG"] = environ["GH_ORG"]) =>
        /\ ls_error = ""
        /\ token = environ["GH_TOKEN"]
        /\ org = environ["GH_ORG"]

\* only GH_TOKEN and GH_ORG are set, and the run ends for a missing token
C22y_MissingToken ==
    /\ LsDone /\ GhSupplied
    /\ environ["GITHUB_TOKEN"] = Unset /\ environ["GITHUB_ORG"] = Unset
    /\ ls_error = "token required"

\* GH_ORG names one organization and GITHUB_ORG another: the other is asked for
C22z_OtherOrg ==
    /\ LsDone /\ GhSupplied
    /\ environ["GITHUB_ORG"] = O2
    /\ ls_error = "organization not found"

\* the names a list file holds: its lines, stripped, without the header line
\* and without blank lines
ListedNames(file) ==
    IF ~file.exists THEN {}
    ELSE LET lines == SplitOn(file.content, NL)
         IN { Strip(lines[i]) : i \in 1..Len(lines) }
                \ ({<<>>} \cup (IF LowerStr(Strip(Head(lines))) = Header THEN {Header} ELSE {}))

Listed(name) ==
    /\ name \notin ListedNames(exclusion_file)
    /\ ListedNames(inclusion_file) # {} => name \in ListedNames(inclusion_file)

Filtered == ls_pc \in {"limit", "ready", "exit0"}

\* C25: list_repositories returns, in the enumeration order, exactly the
\* repositories that are not in the exclusion list and, when the inclusion
\* list holds a name, are in it; an empty or missing inclusion list filters
\* nothing.
C25_ListFiltering ==
    Filtered => filtered_repos = SelectSeq(hub_repos, Listed)

\* the same for inclusion files whose first line is not blank
C25x_FirstLineNotBlank ==
    (Filtered /\ (inclusion_file.exists => Strip(Head(SplitOn(inclusion_file.content, NL))) # <<>>))
        => filtered_repos = SelectSeq(hub_repos, Listed)

\* an inclusion file that exists and is empty: no repository is returned
C25y_EmptyInclusionFile ==
    /\ Filtered
    /\ inclusion_file = FileOf(<<>>)
    /\ exclusion_file = MissingFile
    /\ hub_repos = <<N_r, N_q>>
    /\ filtered_repos = <<>>

----------------------------------------------------------------------------
(* Properties of main's loop (SpecMain) *)

Rewritten == args.pattern = P_any /\ StartsWith(args.file_pattern, <<"*", ".">>)

\* the repositories that were cloned and whose analysis did not raise
Analyzed(i) == remote[repo_list[i]].outcome = "ok"

ContentOf(i) ==
    IF remote[repo_list[i]].found = NoFiles THEN <<>>
    ELSE remote[repo_list[i]].found[1].content

AllLinesReported(i) ==
    /\ FileKey(repo_list[i]) \in DOMAIN all_results
    /\ LET matches == all_results[FileKey(repo_list[i])].matches
       IN /\ Len(matches) = Len(SplitLines(ContentOf(i)))
          /\ \A k \in 1..Len(matches) : matches[k].line_number = k

\* C21: a --pattern starting with "*." becomes the file pattern and the
\* content pattern becomes ".*"; then every line of every selected file is
\* reported and every selected non-empty file is in the results.
C21_AnyContentMatches ==
    (main_pc = "done" /\ StartsWith(args.file_pattern, <<"*", ".">>)) =>
        /\ args.pattern = P_any
        /\ \A i \in 1..Len(repo_list) :
              (Analyzed(i) /\ ContentOf(i) # <<>>) => AllLinesReported(i)

\* the rewrite itself is done as stated
C21x_Rewrite ==
    (main_pc # "start" /\ StartsWith(args.file_pattern, <<"*", ".">>)) => args.pattern = P_any

\* without --contents, the files all of whose lines hold a '.' are reported whole
C21y_LinesWithDot ==
    (main_pc = "done" /\ Rewritten /\ args.contents = Unset) =>
        \A i \in 1..Len(repo_list) :
            (/\ Analyzed(i) /\ ContentOf(i) # <<>>
             /\ \A k \in 1..Len(SplitLines(ContentOf(i))) :
                    Contains(SplitLines(ContentOf(i))[k], ".")) => AllLinesReported(i)

\* --pattern "*.tf", no --contents, the selected file holds the line "b": the
\* run ends without the file in the results
C21z_FileMissing ==
    /\ main_pc = "done" /\ Rewritten /\ args.contents = Unset
    /\ repo_list = <<N_r>> /\ remote[N_r].outcome = "ok"
    /\ remote[N_r].found = <<TextFile(<<"b">>, {})>>
    /\ all_results = EmptyDict

\* what the repository at position i contributes when it alone is analyzed
ExpectedOf(i) ==
    IF Analyzed(i)
    THEN RepoResults(remote[repo_list[i]].found, repo_list[i], args)
    ELSE EmptyDict

ExpectedKeys == UNION { DOMAIN ExpectedOf(i) : i \in 1..Len(repo_list) }

LoopLeft == main_pc \in {"finally", "report", "done"}

\* the repositories git could clone
Clonable == { repo_list[i] : i \in { j \in 1..Len(repo_list) :
                                       remote[repo_list[j]].outcome # "clone_fails" } }

\* a step of the loop leaves what all_results holds as it is
EarlierKept ==
    main_pc \in {"clone", "analyze"} =>
        \A k \in DOMAIN all_results :
            k \in DOMAIN all_results' /\ all_results'[k] = all_results[k]

\* the cleanup under --keep-clones leaves the clone directory as it is
ClonesKept ==
    (main_pc \in {"finally", "finally_exc"} /\ args.keep_clones) =>
        clone_dir' = clone_dir

\* C23: a clone failure or an exception in the analysis of one repository
\* touches that repository only: every repository of the list is still
\* cloned and analyzed, each one that succeeds contributes its results, and
\* what earlier repositories contributed stays as it was, up to the report.
C23_FailureIsolated ==
    /\ [](LoopLeft =>
            /\ DOMAIN all_results = ExpectedKeys
            /\ \A i \in 1..Len(repo_list) : \A k \in DOMAIN ExpectedOf(i) :
                  all_results[k] = ExpectedOf(i)[k])
    /\ [](main_pc = "finally" => clone_dir = Clonable)
    /\ []((main_pc = "done" /\ all_results # EmptyDict) =>
            (report.written /\ report.data = all_results))
    /\ [][EarlierKept]_vars

\* the first repository failed, the second one is in the report
C23_Witness ==
    /\ main_pc = "done"
    /\ repo_list = <<N_r, N_q>>
    /\ remote[N_r].outcome = "raises"
    /\ remote[N_q].outcome = "ok"
    /\ report.written
    /\ DOMAIN report.data = {FileKey(N_q)}

\* C24: without --keep-clones the clone directory is empty once the loop is
\* left, by its end or by an exception, and before the report is written;
\* with --keep-clones the cleanup leaves the clones where they are.
C24_CloneDirEmptied ==
    /\ []((main_pc \in {"report", "done", "interrupted"} /\ ~args.keep_clones) =>
            clone_dir = {})
    /\ []((report.written /\ ~args.keep_clones) => clone_dir = {})
    /\ []((main_pc \in {"report", "done"} /\ args.keep_clones) => clone_dir = Clonable)
    /\ [][ClonesKept]_vars

\* the first repository was cloned, the second was interrupted, and the
\* clone directory is empty
C24_Witness ==
    /\ main_pc = "interrupted"
    /\ ~args.keep_clones
    /\ repo_idx = 2
    /\ remote[repo_list[1]].outcome = "ok"
    /\ remote[repo_list[2]].outcome = "ok"
    /\ clone_dir = {}

\* with --keep-clones both clones are there when the run ends
C24k_Kept ==
    /\ main_pc = "done"
    /\ args.keep_clones
    /\ clone_dir = {N_r, N_q}

====
